---------------------------- MODULE Spec2Model ----------------------------
(***************************************************************************)
(* A model of prime-parser: the heuristic extraction engine               *)
(* (src/src/prime_parser/core/pdf_parser.py, class PDFParser), and the     *)
(* delivery of the result with retries (utils/retry.py,                    *)
(* clients/http_client.py).                                                *)
(*                                                                         *)
(* Text.  A Python str is a sequence of one-character strings.  The module *)
(* language admits only ASCII inside string literals, so the Cyrillic      *)
(* markers of the source are written in Latin transliteration, letter for  *)
(* letter where substring relations matter:                                *)
(*     "Ўзбекгидроэнерго" -> Uzbekgidroenergo   "АЖ" -> AJ                 *)
(*     "бўйича" -> boyicha    "ГЭС" -> GES      "КГЭС" -> KGES             *)
(* and the em dash "—" (U+2014) is written "~".  None (an absent cell) is  *)
(* the value NoneCell, which is no text.                                   *)
(*                                                                         *)
(* Numbers.  A decimal.Decimal is a record [m, e] standing for m / 10^e    *)
(* (coefficient and number of fractional digits), exact as in Python.      *)
(***************************************************************************)
EXTENDS Integers, Sequences, FiniteSets, TLC

VARIABLES
    \* _parse_decimal called on its own (SpecParse)
    value,            \* the argument of _parse_decimal
    parsed,           \* what the call produced
    ppc,              \* "idle" | "call" | "return"
    \* _find_total_energy (Spec, SpecColumn)
    tables,           \* the argument: a sequence of tables of rows of cells
    table_idx,        \* position of the outer loop (0-based)
    row_idx,          \* position of the inner loop (0-based)
    ges_rows,         \* station rows collected so far
    summary_row,      \* the summary row, or NoRow
    target_col_idx,   \* result of _find_sum_column, once called
    outcome,          \* what _find_total_energy returned or raised
    pc,               \* position in _find_total_energy
    \* _find_total_energy called a second time (SpecTwice)
    invocation,       \* 1 during the first call, 2 during the second
    first_outcome,    \* what the first call returned or raised
    \* _extract_date (SpecDate, SpecPdf)
    page_text,        \* what page.extract_text() gave
    date_out,         \* what _extract_date returned or raised
    dpc,              \* "idle" | "call" | "return"
    \* parse_pdf (SpecPdf)
    pdf,              \* the opened document: a sequence of pages
    report,           \* what parse_pdf returned or raised
    ppdf,             \* position in parse_pdf
    \* retry_with_backoff and HTTPClient.send_data (SpecRetry, SpecSend)
    max_attempts,     \* argument
    backoff_factor,   \* argument, a ratio [n, d]
    max_delay,        \* argument, a ratio [n, d]
    exceptions,       \* argument: the classes caught
    attempt,          \* the loop variable of line 42
    calls,            \* how many times func() was called
    in_flight,        \* calls of func() begun and not yet finished
    sleeps,           \* the delays given to asyncio.sleep, in order
    failures,         \* the failures func() raised, in order
    result,           \* what retry_with_backoff returned or raised
    rpc,              \* position in retry_with_backoff
    sent,             \* what send_data returned or raised
    \* parse_pdf_endpoint and process_pdf_background (SpecUpload)
    file,             \* the upload: its filename and its size in bytes
    temp_file_path,   \* "None" until line 160 records the path
    on_disk,          \* the temporary file exists
    scheduled,        \* the background task was added
    pending,          \* the exception on its way to line 188
    http_status,      \* the status the endpoint answered with, 0 before
    epc,              \* position in parse_pdf_endpoint
    bpc,              \* position in process_pdf_background
    failure,          \* what the try block of lines 42-68 raised
    caught,           \* the except clause that logged it
    unlink_failed     \* os.unlink raised

parseVars == <<value, parsed, ppc>>
extractVars == <<tables, table_idx, row_idx, ges_rows, summary_row,
                 target_col_idx, outcome, pc>>
twiceVars == <<invocation, first_outcome>>
dateVars == <<page_text, date_out, dpc>>
pdfVars == <<pdf, report, ppdf>>
retryVars == <<max_attempts, backoff_factor, max_delay, exceptions, attempt,
               calls, in_flight, sleeps, failures, result, rpc, sent>>
vars == <<value, parsed, ppc, tables, table_idx, row_idx, ges_rows,
          summary_row, target_col_idx, outcome, pc, invocation,
          first_outcome, page_text, date_out, dpc, pdf, report, ppdf,
          max_attempts, backoff_factor, max_delay, exceptions, attempt,
          calls, in_flight, sleeps, failures, result, rpc, sent, file,
          temp_file_path, on_disk, scheduled, pending, http_status, epc, bpc,
          failure, caught, unlink_failed>>
uploadVars == <<file, temp_file_path, on_disk, scheduled, pending,
                http_status, epc, bpc, failure, caught, unlink_failed>>

---------------------------------------------------------------------------
(* Bounds of the model *)

\* longest cell text given to _parse_decimal in SpecParse
MaxLen == 4
\* most rows in a TableSet of Spec
MaxRows == 2
\* most station rows handed to _find_sum_column in SpecColumn
MaxGes == 2
\* most further pieces of text after the first date-like piece in SpecDate
MaxPieces == 2
\* most pages of a document in SpecPdf
MaxPages == 2
\* largest max_attempts in SpecSend
MaxAttempts == 3

---------------------------------------------------------------------------
(* Text *)

NoneCell == <<"None">>

EmDash == "~"

Digits == {"0", "1", "2", "3", "4", "5", "6", "7", "8", "9"}

Whitespace == {" "}

DigitVal(c) ==
    CASE c = "0" -> 0 [] c = "1" -> 1 [] c = "2" -> 2 [] c = "3" -> 3
      [] c = "4" -> 4 [] c = "5" -> 5 [] c = "6" -> 6 [] c = "7" -> 7
      [] c = "8" -> 8 [] c = "9" -> 9

\* str.strip(): leading and trailing whitespace removed
RECURSIVE LStrip(_)
LStrip(s) ==
    IF s # << >> /\ Head(s) \in Whitespace THEN LStrip(Tail(s)) ELSE s

RECURSIVE RStrip(_)
RStrip(s) ==
    IF s # << >> /\ s[Len(s)] \in Whitespace
    THEN RStrip(SubSeq(s, 1, Len(s) - 1))
    ELSE s

Strip(s) == RStrip(LStrip(s))

\* str.startswith(prefix)
StartsWith(s, prefix) ==
    /\ Len(s) >= Len(prefix)
    /\ SubSeq(s, 1, Len(prefix)) = prefix

\* sub in s
Contains(s, sub) ==
    \E i \in 0..(Len(s) - Len(sub)) : SubSeq(s, i + 1, i + Len(sub)) = sub

\* bool(cell): None and "" are false
Truthy(cell) == cell # NoneCell /\ cell # << >>

\* variant: s.replace(",", ""), the comma taken for a thousands separator
ReplaceComma_Remove(s) == SelectSeq(s, LAMBDA c : c # ",")

\* s.replace(",", ".")
ReplaceComma(s) == [i \in 1..Len(s) |-> IF s[i] = "," THEN "." ELSE s[i]]

\* re.sub(r"[^\d\.\-]", "", s)
KeepNumeric(c) == c \in Digits \cup {".", "-"}

Cleaned(s) == SelectSeq(s, KeepNumeric)

---------------------------------------------------------------------------
(* decimal.Decimal *)

RECURSIVE Pow10(_)
Pow10(n) == IF n = 0 THEN 1 ELSE 10 * Pow10(n - 1)

Dec(m, e) == [m |-> m, e |-> e]

Max(a, b) == IF a >= b THEN a ELSE b

\* the coefficient of a at e fractional digits (e >= a.e)
Scaled(a, e) == a.m * Pow10(e - a.e)

DecAdd(a, b) ==
    LET e == Max(a.e, b.e) IN Dec(Scaled(a, e) + Scaled(b, e), e)

DecSub(a, b) ==
    LET e == Max(a.e, b.e) IN Dec(Scaled(a, e) - Scaled(b, e), e)

DecAbs(a) == Dec(IF a.m < 0 THEN 0 - a.m ELSE a.m, a.e)

DecLE(a, b) ==
    LET e == Max(a.e, b.e) IN Scaled(a, e) <= Scaled(b, e)

DecLT(a, b) ==
    LET e == Max(a.e, b.e) IN Scaled(a, e) < Scaled(b, e)

DecEq(a, b) ==
    LET e == Max(a.e, b.e) IN Scaled(a, e) = Scaled(b, e)

\* x == x.to_integral_value()
DecIsIntegral(a) == a.m % Pow10(a.e) = 0

\* the natural number written by a sequence of digits ("" is 0)
RECURSIVE DigitsVal(_)
DigitsVal(s) ==
    IF s = << >> THEN 0
    ELSE 10 * DigitsVal(SubSeq(s, 1, Len(s) - 1)) + DigitVal(s[Len(s)])

IsDigit(c) == c \in Digits

IsDot(c) == c = "."

\* Decimal(text) for a text of digits, periods and minus signs: the value
\* when the text is [-] digits [. digits] or [-] . digits, and
\* decimal.InvalidOperation otherwise.
DecimalCtor(text) ==
    LET neg  == text # << >> /\ Head(text) = "-"
        body == IF neg THEN Tail(text) ELSE text
        dots == SelectSeq(body, IsDot)
        digs == SelectSeq(body, IsDigit)
        dot  == IF dots = << >> THEN 0
                ELSE CHOOSE i \in 1..Len(body) :
                        body[i] = "." /\ \A j \in 1..(i - 1) : body[j] # "."
        frac == IF dot = 0 THEN 0 ELSE Len(body) - dot
        ok   == /\ Len(dots) <= 1
                /\ Len(digs) >= 1
                /\ Len(digs) + Len(dots) = Len(body)
    IN  IF ok
        THEN [kind |-> "value",
              val |-> Dec(IF neg THEN 0 - DigitsVal(digs) ELSE DigitsVal(digs),
                          frac)]
        ELSE [kind |-> "InvalidOperation", val |-> Dec(0, 0)]

---------------------------------------------------------------------------
(* PDFParser._parse_decimal *)

Absent == [kind |-> "None", val |-> Dec(0, 0)]

NotCalled == [kind |-> "not called", val |-> Dec(0, 0)]

\* the lone placeholders of line 299
Placeholders == {<<"-">>, <<EmDash>>, << >>}

\* the try block of lines 302-309, with what it raises
ParseBody(s) ==
    LET normalized == ReplaceComma(s)
        cleaned    == Cleaned(normalized)
    IN  IF cleaned = << >> THEN Absent ELSE DecimalCtor(cleaned)

\* variant: except ValueError only
CatchInvalid_ValueErrorOnly(r) ==
    IF r.kind = "ValueError" THEN Absent ELSE r

\* except (ValueError, InvalidOperation): return None
CatchInvalid(r) ==
    IF r.kind \in {"ValueError", "InvalidOperation"} THEN Absent ELSE r

\* kind "value": the Decimal returned; kind "None": None returned; any
\* other kind: the exception that reached the caller
_parse_decimal(v) ==
    IF v = NoneCell THEN Absent
    ELSE LET s == Strip(v)
         IN  IF s = << >> \/ s \in Placeholders THEN Absent
             ELSE CatchInvalid(ParseBody(s))

---------------------------------------------------------------------------
(* Markers of the row classifier *)

Uzbekgidroenergo ==
    <<"U", "z", "b", "e", "k", "g", "i", "d", "r", "o", "e", "n", "e", "r",
      "g", "o">>

AJ == <<"A", "J">>

Boyicha == <<"b", "o", "y", "i", "c", "h", "a">>

GES == <<"G", "E", "S">>

KGES == <<"K", "G", "E", "S">>

SUMMARY_ROW_KEYWORDS == {Uzbekgidroenergo, AJ, Boyicha}

---------------------------------------------------------------------------
(* Rows.  Python indexes from 0, sequences here from 1. *)

\* row[i]
Cell(row, i) == row[i + 1]

NoRow == << <<"NoRow">> >>

\* the thresholds of _find_sum_column and _extract_energy_from_row
MIN_ENERGY == Dec(1, 1)

MAX_ENERGY == Dec(1000, 0)

LargeIntegerLimit == Dec(50, 0)

Tolerance == Dec(10, 1)

TypicalLow == Dec(5, 0)

TypicalHigh == Dec(50, 0)

FallbackMin == Dec(1, 2)

FallbackMax == Dec(1000, 0)

FallbackLow == Dec(10, 0)

FallbackHigh == Dec(200, 0)

\* range(15, min(26, len(summary_row)))
WindowStart == 15

WindowStop == 26

Min(a, b) == IF a <= b THEN a ELSE b

\* variant: the window not closed at WindowStop
ColumnWindow_ToEnd(row) == WindowStart..(Len(row) - 1)

\* range(15, min(26, len(summary_row))), line 208
ColumnWindow(row) == WindowStart..(Min(WindowStop, Len(row)) - 1)

---------------------------------------------------------------------------
(* PDFParser._find_sum_column *)

\* variant: the cell text taken without .strip()
CellRaw_NoStrip(cell) == IF Truthy(cell) THEN cell ELSE << >>

\* cell_raw of line 209
CellRaw(cell) == IF Truthy(cell) THEN Strip(cell) ELSE << >>

\* line 213: the cell is a delta
IsSigned(cell_raw) ==
    StartsWith(cell_raw, <<"+">>) \/ StartsWith(cell_raw, <<"-">>)

\* line 221
InEnergyRange(v) == DecLE(MIN_ENERGY, DecAbs(v)) /\ DecLE(DecAbs(v), MAX_ENERGY)

\* variant: the limit of the comment of line 225 ("typically < 100")
IsLargeInteger_100(v) == DecIsIntegral(v) /\ DecLT(Dec(100, 0), v)

\* line 226
IsLargeInteger(v) == DecIsIntegral(v) /\ DecLT(LargeIntegerLimit, v)

\* line 240-242: the value a station row contributes at col_idx, if any
Contributes(ges_row, col_idx) ==
    /\ col_idx < Len(ges_row)
    /\ _parse_decimal(Cell(ges_row, col_idx)).kind # "None"

\* lines 236-244: total and valid_count over the first n station rows
RECURSIVE GesSum(_, _, _)
GesSum(rows, col_idx, n) ==
    IF n = 0 THEN [total |-> Dec(0, 0), valid_count |-> 0]
    ELSE LET acc == GesSum(rows, col_idx, n - 1)
         IN  IF Contributes(rows[n], col_idx)
             THEN [total |-> DecAdd(acc.total,
                                    _parse_decimal(Cell(rows[n], col_idx)).val),
                   valid_count |-> acc.valid_count + 1]
             ELSE acc

\* variant: difference <= 1.0
SumMatches_LE(difference, valid_count) ==
    DecLE(difference, Tolerance) /\ valid_count > 0

\* line 249
SumMatches(difference, valid_count) ==
    DecLT(difference, Tolerance) /\ valid_count > 0

\* lines 209-233: the column is skipped before any summing
Skipped(summary_row_, col_idx) ==
    LET cell == Cell(summary_row_, col_idx)
        sv   == _parse_decimal(cell)
    IN  \/ IsSigned(CellRaw(cell))
        \/ sv.kind = "None"
        \/ ~InEnergyRange(sv.val)
        \/ IsLargeInteger(sv.val)

\* lines 250-256: the candidate record of a column that is not skipped
CandidateOf(rows, summary_row_, col_idx) ==
    LET sv  == _parse_decimal(Cell(summary_row_, col_idx)).val
        acc == GesSum(rows, col_idx, Len(rows))
    IN  [col_idx |-> col_idx, summary_val |-> sv, total |-> acc.total,
         difference |-> DecAbs(DecSub(sv, acc.total)),
         valid_count |-> acc.valid_count]

\* line 249 for one column of the window
IsCandidate(rows, summary_row_, col_idx) ==
    /\ ~Skipped(summary_row_, col_idx)
    /\ LET c == CandidateOf(rows, summary_row_, col_idx)
       IN  SumMatches(c.difference, c.valid_count)

\* the list candidates after the columns below stop have been visited
RECURSIVE Candidates(_, _, _)
Candidates(rows, summary_row_, stop) ==
    IF stop <= WindowStart THEN << >>
    ELSE LET before == Candidates(rows, summary_row_, stop - 1)
         IN  IF IsCandidate(rows, summary_row_, stop - 1)
             THEN Append(before, CandidateOf(rows, summary_row_, stop - 1))
             ELSE before

\* line 273
IsTypical(c) ==
    DecLE(TypicalLow, c.summary_val) /\ DecLE(c.summary_val, TypicalHigh)

\* variant: the last element of least key
MinByDifference_Last(cs) ==
    LET best == CHOOSE i \in 1..Len(cs) :
                    /\ \A j \in 1..Len(cs) :
                            DecLE(cs[i].difference, cs[j].difference)
                    /\ \A j \in (i + 1)..Len(cs) :
                            ~DecLE(cs[j].difference, cs[i].difference)
    IN  cs[best]

\* min(cs, key=lambda x: x["difference"]): the first element of least key
MinByDifference(cs) ==
    LET best == CHOOSE i \in 1..Len(cs) :
                    /\ \A j \in 1..Len(cs) :
                            DecLE(cs[i].difference, cs[j].difference)
                    /\ \A j \in 1..(i - 1) :
                            ~DecLE(cs[j].difference, cs[i].difference)
    IN  cs[best]

\* lines 269-279
Best(candidates) ==
    LET typical_candidates == SelectSeq(candidates, IsTypical)
    IN  IF typical_candidates # << >>
        THEN MinByDifference(typical_candidates)
        ELSE MinByDifference(candidates)

NoneIdx == [found |-> FALSE, col_idx |-> 0]

NotCalledIdx == [found |-> FALSE, col_idx |-> 0 - 1]

_find_sum_column(rows, summary_row_) ==
    LET candidates ==
            Candidates(rows, summary_row_,
                       WindowStart + Cardinality(ColumnWindow(summary_row_)))
    IN  IF candidates # << >>
        THEN [found |-> TRUE, col_idx |-> Best(candidates).col_idx]
        ELSE NoneIdx

---------------------------------------------------------------------------
(* PDFParser._extract_energy_from_row *)

NoOutcome == [kind |-> "none", val |-> Dec(0, 0), via |-> "none", row |-> NoRow]

\* variant: the check of line 334 alone
InFallbackWindow_BroadOnly(v) ==
    DecLE(FallbackMin, DecAbs(v)) /\ DecLE(DecAbs(v), FallbackMax)

\* lines 334 and 337
InFallbackWindow(v) ==
    /\ DecLE(FallbackMin, DecAbs(v)) /\ DecLE(DecAbs(v), FallbackMax)
    /\ DecLE(FallbackLow, DecAbs(v)) /\ DecLE(DecAbs(v), FallbackHigh)

\* lines 328-337: the cell makes the loop return
Qualifies(cell) ==
    LET val == _parse_decimal(cell)
    IN  val.kind # "None" /\ InFallbackWindow(val.val)

_extract_energy_from_row(row) ==
    IF \E i \in 0..(Len(row) - 1) : Qualifies(Cell(row, i))
    THEN LET cell_idx == CHOOSE i \in 0..(Len(row) - 1) :
                            /\ Qualifies(Cell(row, i))
                            /\ \A j \in 0..(i - 1) : ~Qualifies(Cell(row, j))
         IN  [kind |-> "return", val |-> _parse_decimal(Cell(row, cell_idx)).val,
              via |-> "fallback", row |-> row]
    ELSE [kind |-> "DataExtractionError", val |-> Dec(0, 0),
          via |-> "fallback", row |-> row]

---------------------------------------------------------------------------
(* The inputs explored *)

Pad == [i \in 1..(WindowStart - 1) |-> NoneCell]

\* a row whose cells 15.. are tail, cells 1..14 absent
Row(label, tail) == <<label>> \o Pad \o tail

\* a row that ends before the window, with cell at index 1
ShortRow(label, cell) == <<label, cell>>

\* a row reaching past the window, with cell at index WindowStop
LongRow(label, cell) ==
    Row(label, [i \in 1..(WindowStop - WindowStart) |-> NoneCell] \o <<cell>>)

LabelSummary == Uzbekgidroenergo \o <<" ">> \o AJ \o <<" ">> \o Boyicha

LabelSummaryGES ==
    Uzbekgidroenergo \o <<" ">> \o AJ \o <<" ">> \o GES \o <<" ">> \o Boyicha

LabelOrgGES == Uzbekgidroenergo \o <<" ">> \o GES

LabelOther == <<"J", "a", "m", "i">>

\* first cells of the rows of Spec: those of station and summary rows, and
\* those of rows that are neither
ClassifiedLabels == {GES, KGES, LabelSummary, LabelSummaryGES}

OtherLabels == {LabelOrgGES, LabelOther, << >>, NoneCell}

\* cell texts: "30", "30,4", "60", "60.0", "60.2", "31", "+30", " -30",
\* "k-30", "-30", "0.5", "0.05", the em dash
T30 == <<"3", "0">>

T30c4 == <<"3", "0", ",", "4">>

T60 == <<"6", "0">>

T60p0 == <<"6", "0", ".", "0">>

T60p2 == <<"6", "0", ".", "2">>

T31 == <<"3", "1">>

TPlus30 == <<"+", "3", "0">>

TSpMinus30 == <<" ", "-", "3", "0">>

TkMinus30 == <<"k", "-", "3", "0">>

TMinus30 == <<"-", "3", "0">>

T0p5 == <<"0", ".", "5">>

T0p05 == <<"0", ".", "0", "5">>

TDash == <<EmDash>>

\* Spec: window cell of a row
SpecCells == {T30, T30c4, NoneCell}

SpecRows ==
    {Row(l, <<c>>) : l \in ClassifiedLabels, c \in SpecCells}
        \cup {Row(l, <<T30>>) : l \in OtherLabels}
        \cup {<< >>}

SeqsUpTo(S, n) == UNION {[1..k -> S] : k \in 0..n}

\* a TableSet of two tables: the rows before cut and the rows after it
TableSetOf(rows, cut) ==
    <<SubSeq(rows, 1, cut), SubSeq(rows, cut + 1, Len(rows))>>

\* SpecColumn: station rows and summary rows
StationCells15 == {T30, TMinus30, TDash}

StationCells16 == {T30, NoneCell}

StationRows ==
    {Row(GES, <<a, b>>) : a \in StationCells15, b \in StationCells16}
        \cup {ShortRow(KGES, T30), LongRow(GES, T30)}

SummaryCells15 ==
    {T30, T30c4, T31, T60, T60p0, T60p2, TPlus30, TSpMinus30, TkMinus30,
     T0p5, T0p05, TDash, NoneCell}

SummaryCells16 == {T30, T30c4, T60p2, NoneCell}

SummaryEdgeCells == {T30c4, T60, NoneCell}

SummaryRows ==
    {Row(LabelSummary, <<a, b>>) : a \in SummaryCells15, b \in SummaryCells16}
        \cup {Row(LabelSummary, <<a>>) : a \in SummaryCells15}
        \cup {ShortRow(LabelSummary, a) : a \in SummaryEdgeCells}
        \cup {LongRow(LabelSummary, a) : a \in SummaryEdgeCells}
        \cup {Row(LabelSummary, << >>)}

\* SpecParse: the characters of a cell text
Chars == {"0", "1", "2", ".", ",", "-", " ", "k", EmDash}

CellTexts == SeqsUpTo(Chars, MaxLen)

---------------------------------------------------------------------------
(* PDFParser._extract_date.  The Cyrillic letter that closes DATE_PATTERN  *)
(* (line 26) is written "y".                                               *)

ShortI == "y"

\* \d{n} at position i (1-based)
DigitsAt(s, i, n) ==
    /\ i + n - 1 <= Len(s)
    /\ \A k \in i..(i + n - 1) : s[k] \in Digits

\* the length of the run of \s that starts at position i
RECURSIVE SpaceRun(_, _)
SpaceRun(s, i) ==
    IF i <= Len(s) /\ s[i] \in Whitespace THEN 1 + SpaceRun(s, i + 1) ELSE 0

\* \s* and the closing letter and period, at position i
SuffixAt(s, i) ==
    LET j == i + SpaceRun(s, i)
    IN  j + 1 <= Len(s) /\ s[j] = ShortI /\ s[j + 1] = "."

\* DATE_PATTERN at position i with a day of n digits
MatchesAt(s, i, n) ==
    /\ DigitsAt(s, i, n)
    /\ i + n <= Len(s) /\ s[i + n] = "."
    /\ DigitsAt(s, i + n + 1, 2)
    /\ i + n + 3 <= Len(s) /\ s[i + n + 3] = "."
    /\ DigitsAt(s, i + n + 4, 4)
    /\ SuffixAt(s, i + n + 8)

\* \d{1,2} is greedy: two digits are tried before one; 0 is no match at i
DayLength(s, i) ==
    IF MatchesAt(s, i, 2) THEN 2 ELSE IF MatchesAt(s, i, 1) THEN 1 ELSE 0

MatchStarts(s) == {i \in 1..Len(s) : DayLength(s, i) > 0}

\* variant: the last match of the text
FirstStart_Last(starts) == CHOOSE i \in starts : \A j \in starts : j <= i

\* re.search scans from the left: the match that starts first
FirstStart(starts) == CHOOSE i \in starts : \A j \in starts : i <= j

\* re.search(DATE_PATTERN, text) and match.groups(), lines 109-111
Search(s) ==
    LET starts == MatchStarts(s)
        i == FirstStart(starts)
        n == DayLength(s, i)
    IN  IF starts = {}
        THEN [found |-> FALSE, day |-> << >>, month |-> << >>, year |-> << >>]
        ELSE [found |-> TRUE,
              day   |-> SubSeq(s, i, i + n - 1),
              month |-> SubSeq(s, i + n + 1, i + n + 2),
              year  |-> SubSeq(s, i + n + 4, i + n + 7)]

NoDate == [year |-> 0, month |-> 0, day |-> 0]

DaysInMonth(y, m) ==
    IF m = 2
    THEN (IF y % 4 = 0 /\ (y % 100 # 0 \/ y % 400 = 0) THEN 29 ELSE 28)
    ELSE IF m \in {4, 6, 9, 11} THEN 30 ELSE 31

\* datetime(year, month, day).date(): ValueError when out of range
DatetimeCtor(y, m, d) ==
    IF /\ 1 <= y /\ y <= 9999
       /\ 1 <= m /\ m <= 12
       /\ 1 <= d /\ d <= DaysInMonth(y, m)
    THEN [kind |-> "value", date |-> [year |-> y, month |-> m, day |-> d]]
    ELSE [kind |-> "ValueError", date |-> NoDate]

DateNotCalled ==
    [kind |-> "not called", date |-> NoDate, msg |-> "", cause |-> "none"]

DateError(msg, cause) ==
    [kind |-> "DataExtractionError", date |-> NoDate, msg |-> msg,
     cause |-> cause]

\* lines 103-127
_extract_date(text) ==
    IF ~Truthy(text) THEN DateError("No text found in PDF page", "none")
    ELSE LET match == Search(text)
             made  == DatetimeCtor(DigitsVal(match.year),
                                   DigitsVal(match.month),
                                   DigitsVal(match.day))
         IN  IF ~match.found
             THEN DateError("Date pattern not found in PDF", "none")
             ELSE IF made.kind = "ValueError"
             THEN DateError("Invalid date values extracted", "ValueError")
             ELSE [kind |-> "return", date |-> made.date, msg |-> "",
                   cause |-> "none"]

\* the texts of a first page: one date-like piece, after at most one
\* character, followed by at most MaxPieces further pieces
DatePiece(d, m, y, gap) ==
    d \o <<".">> \o m \o <<".">> \o y \o gap \o <<ShortI, ".">>

DatePieces ==
    {DatePiece(d, m, y, gap) :
        d \in {<<"8">>, <<"0">>, <<"2", "9">>, <<"3", "1">>, <<"3", "2">>},
        m \in {<<"0", "1">>, <<"0", "2">>, <<"0", "4">>, <<"1", "3">>},
        y \in {<<"2", "0", "2", "6">>, <<"2", "0", "2", "4">>,
                <<"0", "0", "0", "0">>},
        gap \in {<< >>, <<" ">>}}

\* near misses: a month of one digit, a year of two, no closing letter, no
\* closing period, another separator, a letter before the closing letter
BrokenPieces ==
    {<<"8", ".", "1", ".", "2", "0", "2", "6", " ", ShortI, ".">>,
     <<"8", ".", "0", "1", ".", "2", "6", " ", ShortI, ".">>,
     <<"8", ".", "0", "1", ".", "2", "0", "2", "6">>,
     <<"8", ".", "0", "1", ".", "2", "0", "2", "6", " ", ShortI>>,
     <<"8", "-", "0", "1", "-", "2", "0", "2", "6", " ", ShortI, ".">>,
     <<"8", ".", "0", "1", ".", "2", "0", "2", "6", "k", ShortI, ".">>}

LaterPieces ==
    {<<" ">> \o DatePiece(<<"8">>, <<"0", "1">>, <<"2", "0", "2", "6">>, << >>),
     <<" ">> \o DatePiece(<<"3", "2">>, <<"0", "1">>, <<"2", "0", "2", "4">>,
                          <<" ">>),
     <<"k">>}

RECURSIVE Concat(_)
Concat(pieces) ==
    IF pieces = << >> THEN << >> ELSE Head(pieces) \o Concat(Tail(pieces))

PageTexts ==
    {NoneCell, << >>} \cup
    {before \o piece \o Concat(later) :
        before \in {<< >>, <<"1">>, <<"k">>},
        piece \in DatePieces \cup BrokenPieces,
        later \in SeqsUpTo(LaterPieces, MaxPieces)}

---------------------------------------------------------------------------
(* What the components hold while they are not running *)

TwiceIdle == invocation = 1 /\ first_outcome = NoOutcome

DateIdle == page_text = NoneCell /\ date_out = DateNotCalled /\ dpc = "idle"

NoReport ==
    [kind |-> "none", date |-> NoDate, total |-> Dec(0, 0),
     raised_by |-> "none", msg |-> "", cause |-> "none"]

PdfIdle == pdf = << >> /\ report = NoReport /\ ppdf = "idle"

NoResult == [kind |-> "none", attempt |-> 0, class |-> "none"]

RetryIdle ==
    /\ max_attempts = 0
    /\ backoff_factor = [n |-> 1, d |-> 1]
    /\ max_delay = [n |-> 1, d |-> 1]
    /\ exceptions = {}
    /\ attempt = 0
    /\ calls = 0
    /\ in_flight = 0
    /\ sleeps = << >>
    /\ failures = << >>
    /\ result = NoResult
    /\ rpc = "idle"
    /\ sent = NoResult

UploadIdle ==
    /\ file = [filename |-> NoneCell, size |-> 0]
    /\ temp_file_path = "None"
    /\ on_disk = FALSE
    /\ scheduled = FALSE
    /\ pending = [kind |-> "none", status |-> 0]
    /\ http_status = 0
    /\ epc = "idle"
    /\ bpc = "idle"
    /\ failure = "none"
    /\ caught = "none"
    /\ unlink_failed = FALSE

auxVars == <<twiceVars, dateVars, pdfVars, retryVars, uploadVars>>

---------------------------------------------------------------------------
(* PDFParser._find_total_energy *)

ParseIdle == value = NoneCell /\ parsed = NotCalled /\ ppc = "idle"

ExtractIdle ==
    /\ tables = << >>
    /\ table_idx = 0
    /\ row_idx = 0
    /\ ges_rows = << >>
    /\ summary_row = NoRow
    /\ target_col_idx = NotCalledIdx
    /\ outcome = NoOutcome
    /\ pc = "idle"

\* variant: the organization marker not excluded
IsStation_NoOrgCheck(first_cell) ==
    Contains(first_cell, GES) \/ Contains(first_cell, KGES)

\* line 154
IsStation(first_cell) ==
    /\ Contains(first_cell, GES) \/ Contains(first_cell, KGES)
    /\ ~Contains(first_cell, Uzbekgidroenergo)

\* variant: any(...) for all(...)
IsSummary_Any(first_cell) ==
    \E keyword \in SUMMARY_ROW_KEYWORDS : Contains(first_cell, keyword)

\* line 158
IsSummary(first_cell) ==
    \A keyword \in SUMMARY_ROW_KEYWORDS : Contains(first_cell, keyword)

\* line 148: the row is passed over
SkipRow(row) == row = << >> \/ ~Truthy(Cell(row, 0))

\* line 155
CollectGes(rows, row) ==
    IF ~SkipRow(row) /\ IsStation(Cell(row, 0)) THEN Append(rows, row) ELSE rows

\* lines 158-160
SelectSummary(current, row) ==
    IF ~SkipRow(row) /\ IsSummary(Cell(row, 0)) THEN row ELSE current

\* the entry of _find_total_energy, lines 142-144
Init ==
    /\ ParseIdle /\ TwiceIdle /\ DateIdle /\ PdfIdle /\ RetryIdle
    /\ UploadIdle
    /\ \E rows \in SeqsUpTo(SpecRows, MaxRows) : \E cut \in 0..Len(rows) :
           tables = TableSetOf(rows, cut)
    /\ table_idx = 0
    /\ row_idx = 0
    /\ ges_rows = << >>
    /\ summary_row = NoRow
    /\ target_col_idx = NotCalledIdx
    /\ outcome = NoOutcome
    /\ pc = "scan"

\* one iteration of the inner loop, lines 147-166
ScanRow ==
    /\ pc = "scan"
    /\ table_idx < Len(tables)
    /\ row_idx < Len(tables[table_idx + 1])
    /\ LET row == tables[table_idx + 1][row_idx + 1]
       IN  /\ ges_rows' = CollectGes(ges_rows, row)
           /\ summary_row' = SelectSummary(summary_row, row)
    /\ row_idx' = row_idx + 1
    /\ UNCHANGED <<tables, table_idx, target_col_idx, outcome, pc>>
    /\ UNCHANGED parseVars
    /\ UNCHANGED auxVars

\* the inner loop ends: the outer loop of line 146 takes the next table
NextTable ==
    /\ pc = "scan"
    /\ table_idx < Len(tables)
    /\ row_idx = Len(tables[table_idx + 1])
    /\ table_idx' = table_idx + 1
    /\ row_idx' = 0
    /\ UNCHANGED <<tables, ges_rows, summary_row, target_col_idx, outcome, pc>>
    /\ UNCHANGED parseVars
    /\ UNCHANGED auxVars

\* the outer loop ends
ScanEnd ==
    /\ pc = "scan"
    /\ table_idx = Len(tables)
    /\ pc' = "check"
    /\ UNCHANGED <<tables, table_idx, row_idx, ges_rows, summary_row,
                   target_col_idx, outcome>>
    /\ UNCHANGED parseVars
    /\ UNCHANGED auxVars

\* not summary_row
NoSummary(row) == row = NoRow \/ row = << >>

\* lines 168-171
RaiseNoSummary ==
    /\ pc = "check"
    /\ NoSummary(summary_row)
    /\ outcome' = [kind |-> "DataExtractionError", val |-> Dec(0, 0),
                   via |-> "no summary row", row |-> NoRow]
    /\ pc' = "done"
    /\ UNCHANGED <<tables, table_idx, row_idx, ges_rows, summary_row,
                   target_col_idx>>
    /\ UNCHANGED parseVars
    /\ UNCHANGED auxVars

\* line 174
CallFindSumColumn ==
    /\ pc = "check"
    /\ ~NoSummary(summary_row)
    /\ target_col_idx' = _find_sum_column(ges_rows, summary_row)
    /\ pc' = "column"
    /\ UNCHANGED <<tables, table_idx, row_idx, ges_rows, summary_row, outcome>>
    /\ UNCHANGED parseVars
    /\ UNCHANGED auxVars

\* variant: the value of the first column of the window
ColumnValue_WindowStart(row, idx) ==
    IF idx.found /\ WindowStart < Len(row)
    THEN _parse_decimal(Cell(row, WindowStart))
    ELSE Absent

\* lines 176-178: the value of the chosen column, when there is one
ColumnValue(row, idx) ==
    IF idx.found THEN _parse_decimal(Cell(row, idx.col_idx)) ELSE Absent

\* lines 176-184
ReturnColumnValue ==
    /\ pc = "column"
    /\ ColumnValue(summary_row, target_col_idx).kind # "None"
    /\ outcome' = [kind |-> "return",
                   val |-> ColumnValue(summary_row, target_col_idx).val,
                   via |-> "sum column", row |-> summary_row]
    /\ pc' = "done"
    /\ UNCHANGED <<tables, table_idx, row_idx, ges_rows, summary_row,
                   target_col_idx>>
    /\ UNCHANGED parseVars
    /\ UNCHANGED auxVars

\* lines 186-189
FallbackScan ==
    /\ pc = "column"
    /\ ColumnValue(summary_row, target_col_idx).kind = "None"
    /\ outcome' = _extract_energy_from_row(summary_row)
    /\ pc' = "done"
    /\ UNCHANGED <<tables, table_idx, row_idx, ges_rows, summary_row,
                   target_col_idx>>
    /\ UNCHANGED parseVars
    /\ UNCHANGED auxVars

Next ==
    \/ ScanRow
    \/ NextTable
    \/ ScanEnd
    \/ RaiseNoSummary
    \/ CallFindSumColumn
    \/ ReturnColumnValue
    \/ FallbackScan

Spec == Init /\ [][Next]_vars

---------------------------------------------------------------------------
(* _find_sum_column and what follows it, on station rows and a summary     *)
(* row of many shapes: the state after the loops of lines 146-166 have run *)
(* over the one table of the station rows followed by the summary row.     *)

InitColumn ==
    /\ ParseIdle /\ TwiceIdle /\ DateIdle /\ PdfIdle /\ RetryIdle
    /\ UploadIdle
    /\ \E rows \in SeqsUpTo(StationRows, MaxGes) : \E s \in SummaryRows :
           /\ tables = <<Append(rows, s)>>
           /\ ges_rows = rows
           /\ summary_row = s
    /\ table_idx = Len(tables)
    /\ row_idx = Len(tables[1])
    /\ target_col_idx = NotCalledIdx
    /\ outcome = NoOutcome
    /\ pc = "check"

NextColumn ==
    \/ CallFindSumColumn
    \/ ReturnColumnValue
    \/ FallbackScan

SpecColumn == InitColumn /\ [][NextColumn]_vars

---------------------------------------------------------------------------
(* _parse_decimal on every short cell text *)

InitParse ==
    /\ ExtractIdle /\ TwiceIdle /\ DateIdle /\ PdfIdle /\ RetryIdle
    /\ UploadIdle
    /\ value \in CellTexts \cup {NoneCell}
    /\ parsed = NotCalled
    /\ ppc = "call"

ParseDecimal ==
    /\ ppc = "call"
    /\ parsed' = _parse_decimal(value)
    /\ ppc' = "return"
    /\ UNCHANGED value
    /\ UNCHANGED extractVars
    /\ UNCHANGED auxVars

NextParse == ParseDecimal

SpecParse == InitParse /\ [][NextParse]_vars

---------------------------------------------------------------------------
(* _extract_date on the text of a first page *)

InitDate ==
    /\ ParseIdle /\ ExtractIdle /\ TwiceIdle /\ PdfIdle /\ RetryIdle
    /\ UploadIdle
    /\ page_text \in PageTexts
    /\ date_out = DateNotCalled
    /\ dpc = "call"

ExtractDate ==
    /\ dpc = "call"
    /\ date_out' = _extract_date(page_text)
    /\ dpc' = "return"
    /\ UNCHANGED page_text
    /\ UNCHANGED <<parseVars, extractVars, twiceVars, pdfVars, retryVars>>
    /\ UNCHANGED uploadVars

NextDate == ExtractDate

SpecDate == InitDate /\ [][NextDate]_vars

---------------------------------------------------------------------------
(* PDFParser.parse_pdf: the date of the first page, the tables of all      *)
(* pages, _find_total_energy on them, the report.  A document is the       *)
(* sequence of its pages, a page its text and its tables.                  *)

\* an exception leaving parse_pdf, in the shape of report
Exc(kind, raised_by, msg, cause) ==
    [kind |-> kind, date |-> NoDate, total |-> Dec(0, 0),
     raised_by |-> raised_by, msg |-> msg, cause |-> cause]

\* variant: only PDFParsingError passed on as it is
Handle_WrapAll(exc) ==
    IF exc.kind = "PDFParsingError" THEN exc
    ELSE Exc("PDFParsingError", "parse_pdf", "Failed to parse PDF", exc.kind)

\* the except clauses of lines 83-89
Handle(exc) ==
    IF exc.kind \in {"PDFParsingError", "DataExtractionError"} THEN exc
    ELSE Exc("PDFParsingError", "parse_pdf", "Failed to parse PDF", exc.kind)

\* lines 50-53
AllTables(pages) == Concat([i \in 1..Len(pages) |-> pages[i].tables])

\* pages: no text, a date, numbers that are no date, no date at all; no
\* table, stations and their sum, stations alone, a summary row alone with
\* a value or without one
PdfPages ==
    LET date8   == DatePiece(<<"8">>, <<"0", "1">>, <<"2", "0", "2", "6">>,
                             <<" ">>)
        date32  == DatePiece(<<"3", "2">>, <<"0", "1">>,
                             <<"2", "0", "2", "6">>, <<" ">>)
        station == Row(GES, <<T30>>)
    IN  {[text |-> t, tables |-> ts] :
            t \in {NoneCell, date8, date32, <<"k">>},
            ts \in {<< >>,
                    << <<station, Row(LabelSummary, <<T30>>)>> >>,
                    << <<station>> >>,
                    << <<Row(LabelSummary, <<T60>>)>> >>,
                    << <<Row(LabelSummary, <<NoneCell>>)>> >>,
                    << <<station>>, <<Row(LabelSummary, <<T60>>)>> >>}}

InitPdf ==
    /\ ParseIdle /\ ExtractIdle /\ TwiceIdle /\ DateIdle /\ RetryIdle
    /\ UploadIdle
    /\ pdf \in SeqsUpTo(PdfPages, MaxPages)
    /\ report = NoReport
    /\ ppdf = "date"

\* line 46: pdf.pages[0] and _extract_date
ExtractReportDate ==
    /\ ppdf = "date"
    /\ IF pdf = << >>
       THEN /\ report' = Handle(Exc("IndexError", "parse_pdf",
                                    "list index out of range", "none"))
            /\ ppdf' = "done"
            /\ UNCHANGED dateVars
       ELSE LET extracted == _extract_date(pdf[1].text)
            IN  /\ page_text' = pdf[1].text
                /\ date_out' = extracted
                /\ dpc' = "return"
                /\ IF extracted.kind = "return"
                   THEN ppdf' = "tables" /\ UNCHANGED report
                   ELSE /\ ppdf' = "done"
                        /\ report' = Handle(Exc(extracted.kind,
                                                "_extract_date",
                                                extracted.msg,
                                                extracted.cause))
    /\ UNCHANGED <<pdf, parseVars, extractVars, twiceVars, retryVars>>
    /\ UNCHANGED uploadVars

\* lines 50-61: the tables gathered, _find_total_energy entered
ExtractTables ==
    /\ ppdf = "tables"
    /\ tables' = AllTables(pdf)
    /\ pc' = "scan"
    /\ ppdf' = "total"
    /\ UNCHANGED <<table_idx, row_idx, ges_rows, summary_row, target_col_idx,
                   outcome>>
    /\ UNCHANGED <<pdf, report, parseVars, twiceVars, dateVars, retryVars>>
    /\ UNCHANGED uploadVars

\* lines 61-81: what _find_total_energy raised, or the report
ReturnReport ==
    /\ ppdf = "total"
    /\ pc = "done"
    /\ report' = IF outcome.kind = "return"
                 THEN [kind |-> "HydropowerReport", date |-> date_out.date,
                       total |-> outcome.val, raised_by |-> "none",
                       msg |-> "", cause |-> "none"]
                 ELSE Handle(Exc(outcome.kind, "_find_total_energy",
                                 outcome.via, "none"))
    /\ ppdf' = "done"
    /\ UNCHANGED <<pdf, parseVars, extractVars, twiceVars, dateVars, retryVars>>
    /\ UNCHANGED uploadVars

NextPdf ==
    \/ ExtractReportDate
    \/ ExtractTables
    \/ Next
    \/ ReturnReport

SpecPdf == InitPdf /\ [][NextPdf]_vars

---------------------------------------------------------------------------
(* _find_total_energy called again on the TableSet it was just called on,  *)
(* by the same parser: PDFParser has no field, and a call starts from the  *)
(* locals of lines 142-144.                                                *)

\* variant: what the earlier call collected is still there
EntryLocals_Kept == [ges_rows |-> ges_rows, summary_row |-> summary_row]

\* lines 142-144
EntryLocals == [ges_rows |-> << >>, summary_row |-> NoRow]

SecondCall ==
    /\ pc = "done"
    /\ invocation = 1
    /\ invocation' = 2
    /\ first_outcome' = outcome
    /\ table_idx' = 0
    /\ row_idx' = 0
    /\ ges_rows' = EntryLocals.ges_rows
    /\ summary_row' = EntryLocals.summary_row
    /\ target_col_idx' = NotCalledIdx
    /\ outcome' = NoOutcome
    /\ pc' = "scan"
    /\ UNCHANGED <<tables, parseVars, dateVars, pdfVars, retryVars>>
    /\ UNCHANGED uploadVars

NextTwice ==
    \/ Next
    \/ SecondCall

SpecTwice == Init /\ [][NextTwice]_vars

---------------------------------------------------------------------------
(* retry_with_backoff (utils/retry.py) as HTTPClient.send_data calls it    *)
(* (clients/http_client.py).  A delay is a ratio [n, d] of naturals in     *)
(* lowest terms; the factors and powers explored are exact as floats.  A   *)
(* response or a failure is named by the attempt that produced it.         *)

RECURSIVE Power(_, _)
Power(b, k) == IF k = 0 THEN 1 ELSE b * Power(b, k - 1)

\* variant: the delay not capped
Delay_Uncapped(factor, k, cap) ==
    [n |-> Power(factor.n, k), d |-> Power(factor.d, k)]

\* retry.py line 53: min(backoff_factor ** attempt, max_delay)
Delay(factor, k, cap) ==
    IF Power(factor.n, k) * cap.d <= cap.n * Power(factor.d, k)
    THEN [n |-> Power(factor.n, k), d |-> Power(factor.d, k)]
    ELSE cap

\* variant: every failure caught, as with the default (Exception,)
Caught_All(class, excs) == TRUE

\* retry.py line 42: except exceptions -- the class of the failure or one
\* of its bases is listed.  The failures of _send_request: a status of
\* error (raise_for_status), a timeout, a URL that cannot be used.
Caught(class, excs) ==
    LET bases ==
          CASE class = "HTTPStatusError" ->
                   {"HTTPStatusError", "HTTPError", "Exception"}
            [] class = "ConnectTimeout" ->
                   {"ConnectTimeout", "TimeoutException", "TransportError",
                    "RequestError", "HTTPError", "Exception"}
            [] class = "InvalidURL" -> {"InvalidURL", "Exception"}
    IN  bases \cap excs # {}

\* variant: the cause not recorded
Wrap_NoCause(raised) ==
    [kind |-> "ForwardingError", attempt |-> 0, class |-> "none"]

\* http_client.py lines 75-77: raise ForwardingError(...) from e
Wrap(raised) ==
    [kind |-> "ForwardingError", attempt |-> raised.attempt,
     class |-> raised.class]

\* http_client.py lines 52-58 and retry.py line 35
InitSend ==
    /\ ParseIdle /\ ExtractIdle /\ TwiceIdle /\ DateIdle /\ PdfIdle
    /\ UploadIdle
    /\ max_attempts \in 0..MaxAttempts
    /\ backoff_factor \in {[n |-> 1, d |-> 2], [n |-> 1, d |-> 1],
                           [n |-> 2, d |-> 1], [n |-> 3, d |-> 1]}
    /\ max_delay \in {[n |-> 1, d |-> 4], [n |-> 5, d |-> 1],
                      [n |-> 60, d |-> 1]}
    /\ exceptions = {"HTTPError", "TimeoutException"}
    /\ attempt = 1
    /\ calls = 0
    /\ in_flight = 0
    /\ sleeps = << >>
    /\ failures = << >>
    /\ result = NoResult
    /\ rpc = "loop"
    /\ sent = NoResult

\* retry.py lines 35-37: the loop goes on and func() is called
CallFunc ==
    /\ rpc = "loop"
    /\ attempt <= max_attempts
    /\ calls' = calls + 1
    /\ in_flight' = in_flight + 1
    /\ rpc' = "await"
    /\ UNCHANGED <<max_attempts, backoff_factor, max_delay, exceptions,
                   attempt, sleeps, failures, result, sent>>
    /\ UNCHANGED <<parseVars, extractVars, twiceVars, dateVars, pdfVars>>
    /\ UNCHANGED uploadVars

\* retry.py lines 37-40
FuncReturns ==
    /\ rpc = "await"
    /\ in_flight' = in_flight - 1
    /\ result' = [kind |-> "return", attempt |-> attempt,
                  class |-> "response"]
    /\ rpc' = "done"
    /\ UNCHANGED <<max_attempts, backoff_factor, max_delay, exceptions,
                   attempt, calls, sleeps, failures, sent>>
    /\ UNCHANGED <<parseVars, extractVars, twiceVars, dateVars, pdfVars>>
    /\ UNCHANGED uploadVars

\* retry.py lines 42-64: func() raises; the failure leaves at once when it
\* is not caught or the attempt was the last, and is slept on otherwise
FuncRaises ==
    /\ rpc = "await"
    /\ \E class \in {"HTTPStatusError", "ConnectTimeout", "InvalidURL"} :
          /\ failures' = Append(failures,
                                [attempt |-> attempt, class |-> class])
          /\ IF Caught(class, exceptions) /\ attempt # max_attempts
             THEN /\ sleeps' = Append(sleeps, Delay(backoff_factor, attempt,
                                                    max_delay))
                  /\ rpc' = "sleep"
                  /\ UNCHANGED result
             ELSE /\ result' = [kind |-> "raise", attempt |-> attempt,
                                class |-> class]
                  /\ rpc' = "done"
                  /\ UNCHANGED sleeps
    /\ in_flight' = in_flight - 1
    /\ UNCHANGED <<max_attempts, backoff_factor, max_delay, exceptions,
                   attempt, calls, sent>>
    /\ UNCHANGED <<parseVars, extractVars, twiceVars, dateVars, pdfVars>>
    /\ UNCHANGED uploadVars

\* retry.py lines 64 and 35: the sleep ends, the next attempt begins
Wake ==
    /\ rpc = "sleep"
    /\ attempt' = attempt + 1
    /\ rpc' = "loop"
    /\ UNCHANGED <<max_attempts, backoff_factor, max_delay, exceptions,
                   calls, in_flight, sleeps, failures, result, sent>>
    /\ UNCHANGED <<parseVars, extractVars, twiceVars, dateVars, pdfVars>>
    /\ UNCHANGED uploadVars

\* retry.py lines 35 and 67: the range is used up
LoopEnds ==
    /\ rpc = "loop"
    /\ attempt > max_attempts
    /\ result' = [kind |-> "raise", attempt |-> 0, class |-> "RuntimeError"]
    /\ rpc' = "done"
    /\ UNCHANGED <<max_attempts, backoff_factor, max_delay, exceptions,
                   attempt, calls, in_flight, sleeps, failures, sent>>
    /\ UNCHANGED <<parseVars, extractVars, twiceVars, dateVars, pdfVars>>
    /\ UNCHANGED uploadVars

\* http_client.py lines 52-66
SendReturns ==
    /\ rpc = "done"
    /\ sent = NoResult
    /\ result.kind = "return"
    /\ sent' = result
    /\ UNCHANGED <<max_attempts, backoff_factor, max_delay, exceptions,
                   attempt, calls, in_flight, sleeps, failures, result, rpc>>
    /\ UNCHANGED <<parseVars, extractVars, twiceVars, dateVars, pdfVars>>
    /\ UNCHANGED uploadVars

\* http_client.py lines 68-77
SendRaises ==
    /\ rpc = "done"
    /\ sent = NoResult
    /\ result.kind = "raise"
    /\ sent' = Wrap(result)
    /\ UNCHANGED <<max_attempts, backoff_factor, max_delay, exceptions,
                   attempt, calls, in_flight, sleeps, failures, result, rpc>>
    /\ UNCHANGED <<parseVars, extractVars, twiceVars, dateVars, pdfVars>>
    /\ UNCHANGED uploadVars

NextSend ==
    \/ CallFunc
    \/ FuncReturns
    \/ FuncRaises
    \/ Wake
    \/ LoopEnds
    \/ SendReturns
    \/ SendRaises

SpecSend == InitSend /\ [][NextSend]_vars

---------------------------------------------------------------------------
(* parse_pdf_endpoint and process_pdf_background (api/routes.py): the      *)
(* temporary file of an upload.  The background task runs after the        *)
(* endpoint has returned.  What parse_pdf, send_data, the reading of the   *)
(* upload, the writing of the file and os.unlink do is chosen freely among *)
(* the ways they can end.                                                  *)

\* lines 70-82: the except clause that takes a failure of the try block
ExceptClause(class) ==
    CASE class = "PDFParsingError" -> "pdf_parsing_error"
      [] class = "DataExtractionError" -> "data_extraction_error"
      [] class = "ForwardingError" -> "data_forwarding_error"
      [] OTHER -> "unexpected_error_in_background"

\* lines 126-134
InitUpload ==
    /\ ParseIdle /\ ExtractIdle /\ TwiceIdle /\ DateIdle /\ PdfIdle
    /\ RetryIdle
    /\ file \in [filename : {NoneCell, << >>, <<"p", "d", "f">>,
                             <<"a", ".", "t", "x", "t">>,
                             <<"a", ".", "p", "d", "f">>,
                             <<"A", ".", "P", "D", "F">>},
                 size : {0, 10 * 1024 * 1024, 10 * 1024 * 1024 + 1}]
    /\ temp_file_path = "None"
    /\ on_disk = FALSE
    /\ scheduled = FALSE
    /\ pending = [kind |-> "none", status |-> 0]
    /\ http_status = 0
    /\ epc = "validate"
    /\ bpc = "idle"
    /\ failure = "none"
    /\ caught = "none"
    /\ unlink_failed = FALSE

\* lines 138-154: the name and the size of the upload
Validate ==
    /\ epc = "validate"
    /\ LET lower == [i \in 1..Len(file.filename) |->
                        CASE file.filename[i] = "A" -> "a"
                          [] file.filename[i] = "P" -> "p"
                          [] file.filename[i] = "D" -> "d"
                          [] file.filename[i] = "F" -> "f"
                          [] OTHER -> file.filename[i]]
           is_pdf == /\ Truthy(file.filename)
                     /\ Len(lower) >= 4
                     /\ SubSeq(lower, Len(lower) - 3, Len(lower))
                            = <<".", "p", "d", "f">>
       IN  IF ~is_pdf
           THEN /\ pending' = [kind |-> "HTTPException", status |-> 400]
                /\ epc' = "except"
           ELSE IF file.size > 10 * 1024 * 1024
           THEN /\ pending' = [kind |-> "HTTPException", status |-> 413]
                /\ epc' = "except"
           ELSE /\ epc' = "create"
                /\ UNCHANGED pending
    /\ UNCHANGED <<file, temp_file_path, on_disk, scheduled, http_status,
                   bpc, failure, caught, unlink_failed>>
    /\ UNCHANGED <<parseVars, extractVars, twiceVars, dateVars, pdfVars,
                   retryVars>>

\* line 157: NamedTemporaryFile(delete=False) makes the file, or fails
CreateTemp ==
    /\ epc = "create"
    /\ \/ /\ on_disk' = TRUE
          /\ epc' = "write"
          /\ UNCHANGED pending
       \/ /\ pending' = [kind |-> "OSError", status |-> 0]
          /\ epc' = "except"
          /\ UNCHANGED on_disk
    /\ UNCHANGED <<file, temp_file_path, scheduled, http_status, bpc,
                   failure, caught, unlink_failed>>
    /\ UNCHANGED <<parseVars, extractVars, twiceVars, dateVars, pdfVars,
                   retryVars>>

\* lines 158-159: file.read() and temp.write(content); when one of them
\* fails the with statement closes the file and leaves it on the disk
ReadAndWrite ==
    /\ epc = "write"
    /\ \/ /\ epc' = "record"
          /\ UNCHANGED pending
       \/ /\ pending' = [kind |-> "OSError", status |-> 0]
          /\ epc' = "except"
    /\ UNCHANGED <<file, temp_file_path, on_disk, scheduled, http_status,
                   bpc, failure, caught, unlink_failed>>
    /\ UNCHANGED <<parseVars, extractVars, twiceVars, dateVars, pdfVars,
                   retryVars>>

\* line 160
RecordPath ==
    /\ epc = "record"
    /\ temp_file_path' = "tmp.pdf"
    /\ epc' = "schedule"
    /\ UNCHANGED <<file, on_disk, scheduled, pending, http_status, bpc,
                   failure, caught, unlink_failed>>
    /\ UNCHANGED <<parseVars, extractVars, twiceVars, dateVars, pdfVars,
                   retryVars>>

\* lines 162-186: the task is added and 202 returned, the task starting
\* after the response; or the logging of line 162 fails before add_task
Schedule ==
    /\ epc = "schedule"
    /\ \/ /\ scheduled' = TRUE
          /\ http_status' = 202
          /\ epc' = "returned"
          /\ bpc' = "parse"
          /\ UNCHANGED pending
       \/ /\ pending' = [kind |-> "RuntimeError", status |-> 0]
          /\ epc' = "except"
          /\ UNCHANGED <<scheduled, http_status, bpc>>
    /\ UNCHANGED <<file, temp_file_path, on_disk, failure, caught,
                   unlink_failed>>
    /\ UNCHANGED <<parseVars, extractVars, twiceVars, dateVars, pdfVars,
                   retryVars>>

\* lines 188-204: the file of the recorded path is unlinked, a failure of
\* os.unlink passed over, and the exception raised again or as a 500
ExceptHandler ==
    /\ epc = "except"
    /\ IF temp_file_path # "None" /\ on_disk
       THEN \/ on_disk' = FALSE /\ UNCHANGED unlink_failed
            \/ unlink_failed' = TRUE /\ UNCHANGED on_disk
       ELSE UNCHANGED <<on_disk, unlink_failed>>
    /\ http_status' = IF pending.kind = "HTTPException" THEN pending.status
                      ELSE 500
    /\ epc' = "raised"
    /\ UNCHANGED <<file, temp_file_path, scheduled, pending, bpc, failure,
                   caught>>
    /\ UNCHANGED <<parseVars, extractVars, twiceVars, dateVars, pdfVars,
                   retryVars>>

\* lines 42-58 and 70-82: parse_pdf in the executor and to_parsed_data
BackgroundParse ==
    /\ bpc = "parse"
    /\ \/ bpc' = "send" /\ UNCHANGED <<failure, caught>>
       \/ \E class \in {"PDFParsingError", "DataExtractionError",
                        "RuntimeError"} :
             /\ failure' = class
             /\ caught' = ExceptClause(class)
             /\ bpc' = "finally"
    /\ UNCHANGED <<file, temp_file_path, on_disk, scheduled, pending,
                   http_status, epc, unlink_failed>>
    /\ UNCHANGED <<parseVars, extractVars, twiceVars, dateVars, pdfVars,
                   retryVars>>

\* lines 61-68 and 70-82: send_data
BackgroundSend ==
    /\ bpc = "send"
    /\ \/ bpc' = "finally" /\ UNCHANGED <<failure, caught>>
       \/ \E class \in {"ForwardingError", "AttributeError"} :
             /\ failure' = class
             /\ caught' = ExceptClause(class)
             /\ bpc' = "finally"
    /\ UNCHANGED <<file, temp_file_path, on_disk, scheduled, pending,
                   http_status, epc, unlink_failed>>
    /\ UNCHANGED <<parseVars, extractVars, twiceVars, dateVars, pdfVars,
                   retryVars>>

\* lines 83-99: the file is unlinked when it is there; a failure of
\* os.unlink is logged
BackgroundFinally ==
    /\ bpc = "finally"
    /\ IF temp_file_path # "None" /\ on_disk
       THEN \/ on_disk' = FALSE /\ UNCHANGED unlink_failed
            \/ unlink_failed' = TRUE /\ UNCHANGED on_disk
       ELSE UNCHANGED <<on_disk, unlink_failed>>
    /\ bpc' = "finished"
    /\ UNCHANGED <<file, temp_file_path, scheduled, pending, http_status,
                   epc, failure, caught>>
    /\ UNCHANGED <<parseVars, extractVars, twiceVars, dateVars, pdfVars,
                   retryVars>>

NextUpload ==
    \/ Validate
    \/ CreateTemp
    \/ ReadAndWrite
    \/ RecordPath
    \/ Schedule
    \/ ExceptHandler
    \/ BackgroundParse
    \/ BackgroundSend
    \/ BackgroundFinally

SpecUpload == InitUpload /\ [][NextUpload]_vars

---------------------------------------------------------------------------
(* Properties.  Values are compared in thousandths, computed apart from    *)
(* the Decimal operators of the model.                                     *)

Units(d) == d.m * Pow10(3 - d.e)

AbsInt(n) == IF n < 0 THEN 0 - n ELSE n

\* the station rows that hold a parsed value at column c
Contributors(rows, c) ==
    {n \in 1..Len(rows) :
        c < Len(rows[n]) /\ _parse_decimal(Cell(rows[n], c)).kind = "value"}

RECURSIVE UnitsOver(_, _, _)
UnitsOver(rows, c, ns) ==
    IF ns = {} THEN 0
    ELSE LET n == CHOOSE n \in ns : TRUE
         IN  Units(_parse_decimal(Cell(rows[n], c)).val)
                 + UnitsOver(rows, c, ns \ {n})

\* the sum of the station rows' parsed values at column c, in thousandths
StationUnits(rows, c) == UnitsOver(rows, c, Contributors(rows, c))

\* the summary row's parsed value at column c, in thousandths
SummaryUnits(c) == Units(_parse_decimal(Cell(summary_row, c)).val)

\* |summary value - station sum| at column c, in thousandths
DifferenceUnits(c) == AbsInt(SummaryUnits(c) - StationUnits(ges_rows, c))

Returned == target_col_idx.found

ReturnedCol == target_col_idx.col_idx

\* C1: a column returned by _find_sum_column holds a parsed summary value
\* that differs from the sum of the station rows' parsed values at that
\* column by less than 1.0, and at least one station row holds a parsed
\* value there; station cells that are absent, unparseable or beyond the
\* row's end add nothing to the sum.
C1_ReturnedColumnMatchesStationSum ==
    Returned =>
        /\ _parse_decimal(Cell(summary_row, ReturnedCol)).kind = "value"
        /\ DifferenceUnits(ReturnedCol) < 1000
        /\ Contributors(ges_rows, ReturnedCol) # {}

\* a column is returned although a station row holds no parsed value there
C1_Witness ==
    /\ Returned
    /\ \E n \in 1..Len(ges_rows) : n \notin Contributors(ges_rows, ReturnedCol)

\* all the rows of a TableSet, in order
RECURSIVE AllRows(_)
AllRows(ts) == IF ts = << >> THEN << >> ELSE Head(ts) \o AllRows(Tail(ts))

\* the row's first cell is a text holding all three summary keywords
HasSummaryLabel(row) ==
    /\ row # << >>
    /\ row[1] # NoneCell
    /\ Contains(row[1], Uzbekgidroenergo)
    /\ Contains(row[1], AJ)
    /\ Contains(row[1], Boyicha)

SummaryLabelled(ts) == SelectSeq(AllRows(ts), HasSummaryLabel)

\* C2: when several rows carry the summary label, the row selected as the
\* summary row is the first of them in TableSet order.
C2_FirstMatchWins ==
    (pc # "scan" /\ SummaryLabelled(tables) # << >>) =>
        summary_row = Head(SummaryLabelled(tables))

\* C3: when no row carries the summary label, _find_total_energy fails
\* with DataExtractionError, returns no value, and runs neither
\* _find_sum_column nor the fallback scan.
C3_NoSummaryRowFails ==
    SummaryLabelled(tables) = << >> =>
        /\ target_col_idx = NotCalledIdx
        /\ outcome.kind # "return"
        /\ outcome.via \notin {"sum column", "fallback"}
        /\ pc = "done" =>
              /\ outcome.kind = "DataExtractionError"
              /\ outcome.via = "no summary row"

\* the failure is reached on a TableSet that does hold station rows
C3_Witness ==
    /\ pc = "done"
    /\ SummaryLabelled(tables) = << >>
    /\ outcome.kind = "DataExtractionError"
    /\ ges_rows # << >>

\* the row's first cell is non-empty, holds a station marker and does not
\* hold the organization marker
IsStationRow(row) ==
    /\ row # << >>
    /\ row[1] # NoneCell
    /\ row[1] # << >>
    /\ Contains(row[1], GES) \/ Contains(row[1], KGES)
    /\ ~Contains(row[1], Uzbekgidroenergo)

\* the rows visited so far by the loops of lines 146-147
RECURSIVE Visited(_, _, _)
Visited(ts, t, r) ==
    IF t = 0 THEN SubSeq(ts[1], 1, r)
    ELSE Visited(ts, t - 1, Len(ts[t])) \o SubSeq(ts[t + 1], 1, r)

VisitedRows ==
    IF tables = << >> THEN << >>
    ELSE IF table_idx = Len(tables) THEN AllRows(tables)
    ELSE Visited(tables, table_idx, row_idx)

\* C4: the station rows collected are exactly the visited rows whose first
\* cell is non-empty, holds "GES" or "KGES" and does not hold
\* "Uzbekgidroenergo"; the row selected as summary row is none of them.
C4_StationRowsExact ==
    /\ ges_rows = SelectSeq(VisitedRows, IsStationRow)
    /\ \A n \in 1..Len(ges_rows) : ges_rows[n] # summary_row

\* a summary row whose label also holds a station marker, beside a station
C4_Witness ==
    /\ pc = "done"
    /\ summary_row # NoRow
    /\ Contains(summary_row[1], GES)
    /\ ges_rows # << >>

\* the columns _find_sum_column visits
Window == {c \in WindowStart..(WindowStop - 1) : c < Len(summary_row)}

\* the text of the summary cell at column c with surrounding whitespace
\* trimmed ("" for an absent cell)
Trimmed(c) ==
    LET cell == Cell(summary_row, c)
    IN  IF cell = NoneCell THEN << >>
        ELSE LET isText(k) == cell[k] # " "
                 ks == {k \in 1..Len(cell) : isText(k)}
             IN  IF ks = {} THEN << >>
                 ELSE SubSeq(cell,
                             CHOOSE k \in ks : \A j \in ks : k <= j,
                             CHOOSE k \in ks : \A j \in ks : k >= j)

ExplicitlySigned(c) ==
    Trimmed(c) # << >> /\ Trimmed(c)[1] \in {"+", "-"}

\* the station sum at column c is within tolerance of the summary value
SumMatchesAt(c) ==
    /\ _parse_decimal(Cell(summary_row, c)).kind = "value"
    /\ DifferenceUnits(c) < 1000
    /\ Contributors(ges_rows, c) # {}

\* C5: _find_sum_column never returns a column whose summary cell, trimmed
\* of surrounding whitespace, starts with "+" or "-".
C5_SignedColumnNeverReturned ==
    Returned => ~ExplicitlySigned(ReturnedCol)

\* a column is returned while another column of the window is signed and
\* its station sum matches
C5_Witness ==
    /\ Returned
    /\ \E c \in Window : ExplicitlySigned(c) /\ SumMatchesAt(c)

\* the summary value at column c is a whole number above 50
LargeWhole(c) ==
    /\ _parse_decimal(Cell(summary_row, c)).kind = "value"
    /\ SummaryUnits(c) % 1000 = 0
    /\ SummaryUnits(c) > 50000

\* C6: _find_sum_column never returns a column whose summary value is
\* integral and greater than 50.
C6_LargeIntegerNeverReturned ==
    Returned => ~LargeWhole(ReturnedCol)

\* a column is returned while another, unsigned, column of the window holds
\* a whole number above 50, inside the plausibility window [0.1, 1000],
\* that its station sum matches
C6_Witness ==
    /\ Returned
    /\ \E c \in Window :
           /\ LargeWhole(c)
           /\ SummaryUnits(c) <= 1000000
           /\ SumMatchesAt(c)
           /\ ~ExplicitlySigned(c)

\* the candidate columns, and those in the typical sub-range [5, 50]
CandidateCols == {c \in Window : IsCandidate(ges_rows, summary_row, c)}

TypicalCols ==
    {c \in CandidateCols : SummaryUnits(c) >= 5000 /\ SummaryUnits(c) <= 50000}

Surviving == IF TypicalCols # {} THEN TypicalCols ELSE CandidateCols

\* C7: a column is returned exactly when there is a candidate; it is a
\* typical candidate when there is one; among the surviving candidates it
\* has the least difference, and the lowest index among those of least
\* difference.
C7_BestCandidate ==
    pc \in {"column", "done"} =>
        /\ Returned <=> CandidateCols # {}
        /\ Returned =>
              /\ ReturnedCol \in Surviving
              /\ \A c \in Surviving :
                     /\ DifferenceUnits(ReturnedCol) <= DifferenceUnits(c)
                     /\ DifferenceUnits(c) = DifferenceUnits(ReturnedCol)
                            => ReturnedCol <= c

\* a typical candidate is returned although a candidate outside the
\* typical sub-range has a smaller difference
C7_Witness ==
    /\ Returned
    /\ \E c \in CandidateCols \ TypicalCols :
           DifferenceUnits(c) < DifferenceUnits(ReturnedCol)

\* the cells of the summary row whose parsed value has a magnitude in
\* [10, 200]
InTightWindow(i) ==
    /\ _parse_decimal(Cell(summary_row, i)).kind = "value"
    /\ AbsInt(SummaryUnits(i)) >= 10000
    /\ AbsInt(SummaryUnits(i)) <= 200000

TightCells == {i \in 0..(Len(summary_row) - 1) : InTightWindow(i)}

\* C8: when _find_sum_column found no column, the fallback scan returns the
\* value of the leftmost cell of the summary row whose magnitude lies in
\* [10, 200], and fails with DataExtractionError carrying the row exactly
\* when there is no such cell.
C8_FallbackLeftmost ==
    (pc = "done" /\ ~Returned) =>
        /\ outcome.via = "fallback"
        /\ outcome.row = summary_row
        /\ outcome.kind = "DataExtractionError" <=> TightCells = {}
        /\ TightCells # {} =>
              /\ outcome.kind = "return"
              /\ \E i \in TightCells :
                     /\ \A j \in TightCells : i <= j
                     /\ outcome.val = _parse_decimal(Cell(summary_row, i)).val

\* the fallback returns the leftmost of two qualifying cells of different
\* value
C8_Witness ==
    /\ pc = "done"
    /\ ~Returned
    /\ outcome.kind = "return"
    /\ \E i, j \in TightCells : SummaryUnits(i) # SummaryUnits(j)

\* the cell text with commas read as periods and every character that is
\* not a digit, a period or a minus sign left out
Remaining(v) ==
    LET norm == [i \in 1..Len(v) |-> IF v[i] = "," THEN "." ELSE v[i]]
    IN  SelectSeq(norm, LAMBDA c : c \in Digits \cup {".", "-"})

AllDigits(t, from, to) == \A i \in from..to : t[i] \in Digits

\* t is [-] digits [. digits] or [-] . digits
WellFormedDecimal(t) ==
    LET b == IF t # << >> /\ t[1] = "-" THEN SubSeq(t, 2, Len(t)) ELSE t
    IN  /\ \E i \in 1..Len(b) : b[i] \in Digits
        /\ \E k \in 0..Len(b) :
               /\ AllDigits(b, 1, k)
               /\ k = Len(b) \/ (b[k + 1] = "." /\ AllDigits(b, k + 2, Len(b)))

\* None, the empty text, whitespace only, a lone "-" or a lone em dash
LonePlaceholder(v) ==
    \/ v = NoneCell
    \/ \A i \in 1..Len(v) : v[i] = " "
    \/ v = <<"-">>
    \/ v = <<EmDash>>

\* C9: _parse_decimal never raises; it returns None for None, the empty
\* text, whitespace only, a lone "-" and a lone em dash, None when no digit,
\* period or minus sign is left, and None when what is left is not a
\* well-formed decimal.
C9_ParseNeverRaises ==
    ppc = "return" =>
        /\ parsed.kind \in {"value", "None"}
        /\ LonePlaceholder(value) => parsed = Absent
        /\ (value # NoneCell /\ Remaining(value) = << >>) => parsed = Absent
        /\ (value # NoneCell /\ ~WellFormedDecimal(Remaining(value)))
               => parsed = Absent

\* a text whose remainder is not empty and not a decimal (two periods, a
\* misplaced minus sign) has been parsed
C9_Witness ==
    /\ ppc = "return"
    /\ value # NoneCell
    /\ Remaining(value) # << >>
    /\ \E i \in 1..Len(value) : value[i] \in Digits
    /\ ~WellFormedDecimal(Remaining(value))

\* whitespace and unit letters
Noise == {" ", "k"}

Separators == {",", "."}

\* the positions of v that hold a digit or a separator
CorePositions(v) == {i \in 1..Len(v) : v[i] \in Digits \cup Separators}

\* v is digits with exactly one separator, at most one minus sign before
\* them, and noise only before and after them
SeparatedNumber(v) ==
    /\ v # NoneCell
    /\ \E i \in 1..Len(v) : v[i] \in Digits
    /\ Cardinality({i \in 1..Len(v) : v[i] \in Separators}) = 1
    /\ Cardinality({i \in 1..Len(v) : v[i] = "-"}) <= 1
    /\ \A i \in 1..Len(v) : v[i] \in Digits \cup Separators \cup Noise \cup {"-"}
    /\ \A i, j \in CorePositions(v) : \A k \in i..j : k \in CorePositions(v)
    /\ \A i \in 1..Len(v) : v[i] = "-" => \A j \in CorePositions(v) : i < j

SeparatorAt(v) == CHOOSE i \in 1..Len(v) : v[i] \in Separators

\* the digits of v read as one natural number, left to right
RECURSIVE NatOf(_, _, _)
NatOf(v, i, acc) ==
    IF i > Len(v) THEN acc
    ELSE NatOf(v, i + 1,
               IF v[i] \in Digits THEN 10 * acc + DigitVal(v[i]) ELSE acc)

FractionDigits(v) ==
    Cardinality({i \in 1..Len(v) : i > SeparatorAt(v) /\ v[i] \in Digits})

IsNegative(v) == \E i \in 1..Len(v) : v[i] = "-"

\* v with its separator written as sep
WithSeparator(v, sep) ==
    [i \in 1..Len(v) |-> IF v[i] \in Separators THEN sep ELSE v[i]]

\* C10: for a text of digits with one separator (comma or period), an
\* optional leading minus sign and surrounding whitespace or unit letters,
\* _parse_decimal returns the decimal the text denotes, and the same result
\* whether the separator is a comma or a period.
C10_SeparatedNumberParsed ==
    (ppc = "return" /\ SeparatedNumber(value)) =>
        /\ parsed.kind = "value"
        /\ parsed.val.m * Pow10(FractionDigits(value))
               = (IF IsNegative(value) THEN 0 - NatOf(value, 1, 0)
                  ELSE NatOf(value, 1, 0)) * Pow10(parsed.val.e)
        /\ parsed = _parse_decimal(WithSeparator(value, ","))
        /\ parsed = _parse_decimal(WithSeparator(value, "."))

\* a negative number written with a comma and a unit letter has been parsed
C10_Witness ==
    /\ ppc = "return"
    /\ SeparatedNumber(value)
    /\ IsNegative(value)
    /\ \E i \in 1..Len(value) : value[i] = ","
    /\ \E i \in 1..Len(value) : value[i] = "k"
    /\ parsed.kind = "value"
    /\ parsed.val.m < 0

---------------------------------------------------------------------------
(* _extract_date *)

\* the pattern is written in t from position i to position j, with a day
\* of n digits: digits, period, two digits, period, four digits, any
\* number of blanks, the closing letter and a period
WrittenAt(t, i, n, j) ==
    /\ i + n + 9 <= j /\ j <= Len(t)
    /\ \A k \in i..(i + n - 1) : t[k] \in Digits
    /\ t[i + n] = "."
    /\ t[i + n + 1] \in Digits /\ t[i + n + 2] \in Digits
    /\ t[i + n + 3] = "."
    /\ \A k \in (i + n + 4)..(i + n + 7) : t[k] \in Digits
    /\ \A k \in (i + n + 8)..(j - 2) : t[k] = " "
    /\ t[j - 1] = ShortI /\ t[j] = "."

DateWrittenAt(t, i) ==
    \E n \in {1, 2} : \E j \in (i + n + 9)..Len(t) : WrittenAt(t, i, n, j)

\* where dates are written in t, in document order
DatePositions(t) ==
    IF t = NoneCell THEN {} ELSE {i \in 1..Len(t) : DateWrittenAt(t, i)}

\* the numbers written at position i
WrittenDate(t, i) ==
    LET n == CHOOSE n \in {1, 2} :
                 \E j \in (i + n + 9)..Len(t) : WrittenAt(t, i, n, j)
    IN  [year  |-> NatOf(SubSeq(t, i + n + 4, i + n + 7), 1, 0),
         month |-> NatOf(SubSeq(t, i + n + 1, i + n + 2), 1, 0),
         day   |-> NatOf(SubSeq(t, i, i + n - 1), 1, 0)]

MonthLengths == <<31, 28, 31, 30, 31, 30, 31, 31, 30, 31, 30, 31>>

\* a date of the proleptic Gregorian calendar, years 1 to 9999
CalendarDate(d) ==
    /\ d.year \in 1..9999
    /\ d.month \in 1..12
    /\ d.day >= 1
    /\ d.day <= MonthLengths[d.month]
                  + (IF /\ d.month = 2
                        /\ \/ d.year % 400 = 0
                           \/ d.year % 4 = 0 /\ d.year % 100 # 0
                     THEN 1 ELSE 0)

FirstPosition(t) ==
    CHOOSE i \in DatePositions(t) : \A k \in DatePositions(t) : i <= k

LastPosition(t) ==
    CHOOSE i \in DatePositions(t) : \A k \in DatePositions(t) : k <= i

\* C11: _extract_date returns the date written first in the text of the
\* page when that is a calendar date, and raises DataExtractionError,
\* returning no date, when the page has no text, when no date is written in
\* it, or when the numbers written first are not a calendar date (whatever
\* is written after them).
C11_DateOfFirstMatch ==
    dpc = "return" =>
        LET positions == DatePositions(page_text)
            first == CHOOSE i \in positions : \A k \in positions : i <= k
            written == WrittenDate(page_text, first)
        IN  IF positions # {} /\ CalendarDate(written)
            THEN date_out.kind = "return" /\ date_out.date = written
            ELSE date_out.kind = "DataExtractionError" /\ date_out.date = NoDate

\* the first of two dates written in the text was returned, and the second
\* is not a calendar date
C11_Witness ==
    /\ dpc = "return"
    /\ Cardinality(DatePositions(page_text)) >= 2
    /\ date_out.kind = "return"
    /\ date_out.date = WrittenDate(page_text, FirstPosition(page_text))
    /\ ~CalendarDate(WrittenDate(page_text, LastPosition(page_text)))

---------------------------------------------------------------------------
(* parse_pdf *)

\* C12: parse_pdf extracts the date before it touches the tables, scans
\* all rows before it infers the column, and scans the summary row only
\* after inference found no column; it returns a report only when the date
\* and the total were both extracted, and the report holds them; a
\* DataExtractionError of either step leaves parse_pdf as it was raised;
\* when the date fails the tables are never looked at, so that failure is
\* the one reported.
C12_DateThenTotal ==
    /\ pc # "idle" => date_out.kind = "return" /\ tables = AllTables(pdf)
    /\ target_col_idx # NotCalledIdx => table_idx = Len(tables)
    /\ outcome.via = "fallback" =>
           target_col_idx # NotCalledIdx /\ ~target_col_idx.found
    /\ report.kind = "HydropowerReport" =>
           /\ date_out.kind = "return" /\ report.date = date_out.date
           /\ outcome.kind = "return" /\ report.total = outcome.val
    /\ (ppdf = "done" /\ date_out.kind = "DataExtractionError") =>
           /\ report.kind = "DataExtractionError"
           /\ report.raised_by = "_extract_date"
           /\ report.msg = date_out.msg /\ report.cause = date_out.cause
           /\ pc = "idle" /\ tables = << >> /\ outcome = NoOutcome
    /\ (ppdf = "done" /\ outcome.kind = "DataExtractionError") =>
           /\ report.kind = "DataExtractionError"
           /\ report.raised_by = "_find_total_energy"
           /\ report.msg = outcome.via /\ report.cause = "none"
    /\ (ppdf = "done" /\ pdf # << >>) =>
           report.kind \in {"HydropowerReport", "DataExtractionError"}

\* the date was not a calendar date and no table of the document holds a
\* summary row: the failure of the date is the one that left parse_pdf
C12_Witness ==
    /\ ppdf = "done"
    /\ date_out.kind = "DataExtractionError"
    /\ date_out.cause = "ValueError"
    /\ AllRows(Concat([i \in 1..Len(pdf) |-> pdf[i].tables])) # << >>
    /\ SummaryLabelled(Concat([i \in 1..Len(pdf) |-> pdf[i].tables])) = << >>
    /\ report.kind = "DataExtractionError"
    /\ report.raised_by = "_extract_date"

---------------------------------------------------------------------------
(* _find_total_energy, twice *)

---------------------------------------------------------------------------
(* retry_with_backoff and send_data *)

\* the classes send_data has retried: httpx.HTTPError, TimeoutException
\* and what derives from them
Recognised(class) == class \in {"HTTPStatusError", "ConnectTimeout"}

\* C14: whatever max_attempts is and however the attempts end, the
\* operation is called at most max_attempts times, one call at a time, and
\* retry_with_backoff ends either returning the result of the first attempt
\* that did not fail, with no attempt after it, or raising the failure of
\* the last attempt as it was raised; it never raises the RuntimeError of
\* its last line.
C14_AttemptsBounded ==
    /\ calls <= max_attempts
    /\ in_flight <= 1
    /\ result.class # "RuntimeError"
    /\ rpc = "done" =>
          \/ /\ result.kind = "return"
             /\ result.attempt = calls
             /\ Len(failures) = calls - 1
          \/ /\ result.kind = "raise"
             /\ calls >= 1
             /\ Len(failures) = calls
             /\ result.attempt = failures[calls].attempt
             /\ result.class = failures[calls].class

RECURSIVE Raised(_, _)
Raised(b, k) == IF k = 0 THEN 1 ELSE Raised(b, k - 1) * b

\* ratios compared by cross-multiplication
AtMost(a, b) == a.n * b.d <= b.n * a.d

Same(a, b) == a.n * b.d = b.n * a.d

\* the k-th sleep lasts min(backoff_factor ^ k, max_delay), follows the
\* k-th failed attempt, and is followed by an attempt (the loop variable
\* moves on) unless it is still going on
DelaysExact ==
    /\ \A k \in 1..Len(sleeps) :
          LET power == [n |-> Raised(backoff_factor.n, k),
                        d |-> Raised(backoff_factor.d, k)]
          IN  /\ AtMost(sleeps[k], power)
              /\ AtMost(sleeps[k], max_delay)
              /\ Same(sleeps[k], power) \/ Same(sleeps[k], max_delay)
              /\ k <= Len(failures)
              /\ failures[k].attempt = k
              /\ Recognised(failures[k].class)
              /\ k < max_attempts
    /\ Len(sleeps) =
          Cardinality({k \in 1..Len(failures) : failures[k].attempt < attempt})
              + (IF rpc = "sleep" THEN 1 ELSE 0)
    /\ rpc = "done" => Len(sleeps) = (IF calls = 0 THEN 0 ELSE calls - 1)

NonDecreasing == \A k \in 1..(Len(sleeps) - 1) : AtMost(sleeps[k], sleeps[k + 1])

\* C15 as stated: the k-th failed attempt, when recognised and not the
\* last allowed, is followed by a sleep of min(backoff_factor ^ k,
\* max_delay); there is no other sleep; no delay exceeds max_delay; each
\* delay is at least the one before it.
C15_DelaysAsStated == DelaysExact /\ NonDecreasing

\* C15, amended: as stated, except that each delay is at least the one
\* before it only when backoff_factor is at least 1 (with a smaller factor
\* the delays shrink).
C15_DelaysWhenFactorAtLeastOne ==
    /\ DelaysExact
    /\ backoff_factor.n >= backoff_factor.d => NonDecreasing

\* two sleeps, the second longer than the first and cut to max_delay
C15_Witness ==
    /\ rpc = "done"
    /\ result.kind = "return"
    /\ Len(sleeps) = 2
    /\ ~AtMost(sleeps[2], sleeps[1])
    /\ sleeps[2] = max_delay
    /\ ~AtMost([n |-> Raised(backoff_factor.n, 2),
                d |-> Raised(backoff_factor.d, 2)], max_delay)

\* C16: a failure of a class that is not retried leaves
\* retry_with_backoff at once, as it was raised: it is the last failure,
\* no sleep follows it and no attempt follows it.
C16_UnrecognisedPropagates ==
    \A k \in 1..Len(failures) :
        ~Recognised(failures[k].class) =>
            /\ k = Len(failures)
            /\ rpc = "done"
            /\ in_flight = 0
            /\ result = [kind |-> "raise", attempt |-> failures[k].attempt,
                         class |-> failures[k].class]
            /\ calls = failures[k].attempt
            /\ Len(sleeps) = calls - 1

\* the second attempt of three failed with a class that is not retried
C16_Witness ==
    /\ max_attempts = 3
    /\ Len(failures) = 2
    /\ Recognised(failures[1].class)
    /\ ~Recognised(failures[2].class)
    /\ result.kind = "raise"
    /\ result.attempt = 2
    /\ Len(sleeps) = 1

---------------------------------------------------------------------------
(* What _find_total_energy returns *)

\* C17: the total that _find_total_energy returns, by column inference or
\* by the fallback scan, is never negative.
C17_TotalNonNegative ==
    outcome.kind = "return" => Units(outcome.val) >= 0

\* C19: when _find_sum_column returns a column c, _find_total_energy
\* returns the value parsed from the summary row's cell at c, without the
\* fallback scan; the fallback scan is run exactly when _find_sum_column
\* returned no column.
C19_ValueOfChosenColumn ==
    (pc = "done" /\ target_col_idx # NotCalledIdx) =>
        /\ target_col_idx.found =>
              /\ outcome.kind = "return"
              /\ outcome.via = "sum column"
              /\ _parse_decimal(summary_row[target_col_idx.col_idx + 1])
                     = [kind |-> "value", val |-> outcome.val]
        /\ outcome.via = "fallback" <=> ~target_col_idx.found

\* the second column of the window was chosen and its value returned,
\* while the first holds another value
C19_Witness ==
    /\ pc = "done"
    /\ target_col_idx.found
    /\ target_col_idx.col_idx = WindowStart + 1
    /\ outcome.via = "sum column"
    /\ _parse_decimal(summary_row[WindowStart + 1]).kind = "value"
    /\ _parse_decimal(summary_row[WindowStart + 1]).val # outcome.val

\* C20: a column that _find_sum_column returns lies in 15..25 and inside
\* the summary row, and the magnitude of the summary value there is within
\* 0.1 .. 1000; on a summary row of 15 cells or fewer _find_sum_column
\* finishes and returns no column.
C20_ColumnInsideWindow ==
    target_col_idx # NotCalledIdx =>
        /\ target_col_idx.found =>
              /\ target_col_idx.col_idx \in 15..25
              /\ target_col_idx.col_idx < Len(summary_row)
              /\ 100 <= AbsInt(SummaryUnits(target_col_idx.col_idx))
              /\ AbsInt(SummaryUnits(target_col_idx.col_idx)) <= 1000000
        /\ Len(summary_row) <= 15 => ~target_col_idx.found

\* the last cell of a row of 17 cells was chosen: column 16
C20_Witness ==
    /\ pc = "column"
    /\ target_col_idx.found
    /\ target_col_idx.col_idx = 16
    /\ Len(summary_row) = 17

---------------------------------------------------------------------------
(* The temporary file of an upload *)

\* C21: a temporary file that was created is no longer on the disk when
\* its request is over -- when parse_pdf_endpoint has raised without
\* scheduling the task, and when process_pdf_background has finished,
\* however parsing and forwarding ended -- unless os.unlink itself
\* failed; and every failure of parsing or forwarding is taken by an
\* except clause of process_pdf_background.
C21_TempFileDeleted ==
    /\ (epc = "raised" /\ ~scheduled) => (~on_disk \/ unlink_failed)
    /\ bpc = "finished" => (~on_disk \/ unlink_failed)
    /\ (bpc = "finished" /\ failure # "none") => caught # "none"

====
